---- MODULE Spec2Model ----
(***************************************************************************)
(* Model of src/main.py: the growth simulator simulate_growth, the chart   *)
(* probe ChartWidget (plot / on_move) and RebalanceApp.calculate.          *)
(*                                                                         *)
(* Python floats are modelled as fixed-point integers:                     *)
(*   weights   in units of 1/WeightScale percent  (0.005 %)                *)
(*   returns   in units of 1/ReturnScale percent  (0.5 %)                  *)
(*   money     in units of 1/MoneyScale currency                           *)
(*   fractions (weight / 100.0) in units of 1/FracScale                    *)
(*   monthly growth factors in units of 1/RateScale                        *)
(*   x positions (years) in units of 1/XScale year                         *)
(* Products and quotients round towards minus infinity at that resolution. *)
(***************************************************************************)
EXTENDS Integers, Sequences, FiniteSets, TLC

\* ---------------------------------------------------------------- bounds
MaxYears == 1

\* ---------------------------------------------------------------- scales
WeightScale == 200
ReturnScale == 2
MoneyScale == 10
FracScale == 100
RateScale == 2
XScale == 120

Hundred == 100
WeightTolerance == 2          \* 0.01 percent, in weight units
MonthsPerYear == 12

None == "None"

\* a Python reference that is None; every modelled object carries isNone
NoneObj == [isNone |-> TRUE]
IsNone(o) == o.isNone

VARIABLES
    \* one activation of simulate_growth
    sim_pc, args, holdings, monthly_rates, timeline, total_values,
    total_contributions, cumulative_contribution, month, result,
    \* ChartWidget
    _ax, _xs, _ys, _ys_contrib, _info_box, _info_text_main, _info_text_total,
    _dot, _dot_contrib,
    \* RebalanceApp
    status_label,
    \* the last event delivered to the widget / app, with its inputs
    last

simVars == <<sim_pc, args, holdings, monthly_rates, timeline, total_values,
             total_contributions, cumulative_contribution, month, result>>
chartVars == <<_ax, _xs, _ys, _ys_contrib, _info_box, _info_text_main,
               _info_text_total, _dot, _dot_contrib>>
vars == <<simVars, chartVars, status_label, last>>

\* ------------------------------------------------------------ arithmetic
RECURSIVE SumSeq(_)
SumSeq(s) == IF s = <<>> THEN 0 ELSE Head(s) + SumSeq(Tail(s))

Abs(a) == IF a < 0 THEN -a ELSE a
\* variant: the contribution is not clamped at zero
Max0_Unclamped(a) == a

Max0(a) == IF a > 0 THEN a ELSE 0

SetMax(S) == CHOOSE a \in S : \A b \in S : b <= a

\* a Python list built by a comprehension or by in-place assignment
List(f) == SubSeq(f, 1, Len(f))

\* the fixed-point product of a money amount and a scaled factor
FMul(a, f, scale) == (a * f) \div scale

\* ------------------------------------------------------ InvestmentMethod
Method(ret, weight) == [annual_return |-> ret, target_weight |-> weight]

\* sum(m.target_weight for m in methods)
WeightSum(methods) ==
    SumSeq([i \in 1..Len(methods) |-> methods[i].target_weight])

\* m.target_weight / 100.0
WeightFrac(m) == (m.target_weight * FracScale) \div (Hundred * WeightScale)

\* (1 + m.annual_return / 100.0) ** (1 / 12): the largest representable
\* factor whose twelfth power does not exceed the annual growth
RootMax == 3
AnnualRoot12(m) ==
    SetMax({q \in 0..RootMax :
              (q ^ 12) * (Hundred * ReturnScale)
                 <= (Hundred * ReturnScale + m.annual_return) * (RateScale ^ 12)})

\* (1 + m.annual_return / 100.0) ** (1 / 12) - 1
MonthlyRate(m) == AnnualRoot12(m) - RateScale

\* ------------------------------------------------------- simulate_growth
Failure == [ok |-> FALSE, months |-> None, values |-> None, contributions |-> None]
Series(t, v, c) == [ok |-> TRUE, months |-> t, values |-> v, contributions |-> c]

\* variant: a return of exactly -100 is rejected too
Invalid_AtMinus100(a) ==
    \/ WeightSum(a.methods) <= 0
    \/ Abs(WeightSum(a.methods) - Hundred * WeightScale) > WeightTolerance
    \/ \E i \in 1..Len(a.methods) :
          a.methods[i].annual_return <= -(Hundred * ReturnScale)

\* lines 33-39: the three validity checks
Invalid(a) ==
    \/ WeightSum(a.methods) <= 0
    \/ Abs(WeightSum(a.methods) - Hundred * WeightScale) > WeightTolerance
    \/ \E i \in 1..Len(a.methods) :
          a.methods[i].annual_return < -(Hundred * ReturnScale)

\* line 42
InitialHoldings(a) ==
    List([i \in 1..Len(a.methods) |->
             FMul(a.principal, WeightFrac(a.methods[i]), FracScale)])

\* line 43
MonthlyRates(a) ==
    List([i \in 1..Len(a.methods) |-> MonthlyRate(a.methods[i])])

\* lines 45-48: the locals on entry to the month loop
LoopEntry(a) ==
    [holdings |-> InitialHoldings(a),
     timeline |-> <<0>>,
     total_values |-> <<a.principal>>,
     total_contributions |-> <<a.principal>>,
     cumulative_contribution |-> a.principal]

\* lines 52-53
Grow(h, rates) ==
    List([i \in 1..Len(h) |-> FMul(h[i], RateScale + rates[i], RateScale)])

\* line 55
IsRebalanceMonth(a, m) ==
    a.rebalance_months > 0 /\ m % a.rebalance_months = 0

\* variant: the contribution is left out of the redistributed total
Rebalance_NoContribution(a, grown) ==
    LET total == SumSeq(grown)
    IN  List([i \in 1..Len(a.methods) |->
                 FMul(total, WeightFrac(a.methods[i]), FracScale)])

\* lines 56-60
Rebalance(a, grown) ==
    LET added == Max0(a.contribution_per_rebalance)
        total == SumSeq(grown) + added
    IN  List([i \in 1..Len(a.methods) |->
                 FMul(total, WeightFrac(a.methods[i]), FracScale)])

\* variant: the month index is recorded from 0, as range(months) would give
MonthStep_FromZero(a, rates, l, m) ==
    LET grown == Grow(l.holdings, rates)
        reb   == IsRebalanceMonth(a, m)
        h2    == IF reb THEN Rebalance(a, grown) ELSE grown
        cc    == IF reb
                 THEN l.cumulative_contribution + Max0(a.contribution_per_rebalance)
                 ELSE l.cumulative_contribution
    IN  [holdings |-> h2,
         timeline |-> Append(l.timeline, m - 1),
         total_values |-> Append(l.total_values, SumSeq(h2)),
         total_contributions |-> Append(l.total_contributions, cc),
         cumulative_contribution |-> cc]

\* lines 51-64: one iteration of the month loop
MonthStep(a, rates, l, m) ==
    LET grown == Grow(l.holdings, rates)
        reb   == IsRebalanceMonth(a, m)
        h2    == IF reb THEN Rebalance(a, grown) ELSE grown
        cc    == IF reb
                 THEN l.cumulative_contribution + Max0(a.contribution_per_rebalance)
                 ELSE l.cumulative_contribution
    IN  [holdings |-> h2,
         timeline |-> Append(l.timeline, m),
         total_values |-> Append(l.total_values, SumSeq(h2)),
         total_contributions |-> Append(l.total_contributions, cc),
         cumulative_contribution |-> cc]

RECURSIVE RunLoop(_, _, _, _, _)
RunLoop(a, rates, l, m, months) ==
    IF m > months THEN l
    ELSE LET n == MonthStep(a, rates, l, m)
         IN  \* an iteration is completed before the next one starts
             CASE n = n -> RunLoop(a, rates, n, m + 1, months)

\* the whole function, as called by RebalanceApp.calculate
simulate_growth(a) ==
    IF a.years <= 0
    THEN Series(<<0>>, <<a.principal>>, <<a.principal>>)
    ELSE IF Invalid(a) THEN Failure
    ELSE LET l == RunLoop(a, MonthlyRates(a), LoopEntry(a), 1,
                          a.years * MonthsPerYear)
         IN  Series(l.timeline, l.total_values, l.total_contributions)

\* ------------------------------------------------- inputs of the simulator
Pct(n) == n * WeightScale               \* n percent as a weight
Ret(n) == n * ReturnScale               \* n percent as an annual return

Principals == {0, 200}
YearsIn == (-1)..MaxYears
RebalanceIn == {-3, 0, 1, 5, 12}
Contributions == {-50, 0, 50}

MethodLists ==
    { <<>>,
      <<Method(Ret(0), Pct(100))>>,
      <<Method(Ret(12875), Pct(60)), Method(Ret(-100) + 1, Pct(40))>>,
      <<Method(Ret(0), Pct(60)), Method(Ret(-100), Pct(40) + 1)>>,
      <<Method(Ret(0), Pct(150)), Method(Ret(12875), Pct(-50))>>,
      <<Method(Ret(0), Pct(100) - 2)>>,
      <<Method(Ret(0), Pct(60)), Method(Ret(0), Pct(39))>>,
      <<Method(Ret(0), Pct(60)), Method(Ret(0), Pct(41))>>,
      <<Method(Ret(0), Pct(60)), Method(Ret(0), Pct(40) + 3)>>,
      <<Method(Ret(0), Pct(-100))>>,
      <<Method(Ret(-100) - 1, Pct(100))>>,
      <<Method(Ret(-100) - 1, Pct(50))>> }

SimArgs ==
    [principal : Principals, years : YearsIn, rebalance_months : RebalanceIn,
     contribution_per_rebalance : Contributions, methods : MethodLists]

NoArgs == [principal |-> 0, years |-> 0, rebalance_months |-> 0,
           contribution_per_rebalance |-> 0, methods |-> <<>>]

\* ------------------------------------------ simulate_growth, step by step
Locals ==
    [holdings |-> holdings, timeline |-> timeline, total_values |-> total_values,
     total_contributions |-> total_contributions,
     cumulative_contribution |-> cumulative_contribution]

SetLocals(l) ==
    /\ holdings' = l.holdings
    /\ timeline' = l.timeline
    /\ total_values' = l.total_values
    /\ total_contributions' = l.total_contributions
    /\ cumulative_contribution' = l.cumulative_contribution

ClearLocals ==
    /\ holdings' = <<>>
    /\ monthly_rates' = <<>>
    /\ timeline' = <<>>
    /\ total_values' = <<>>
    /\ total_contributions' = <<>>
    /\ cumulative_contribution' = 0
    /\ month' = 0

\* variant: the input is validated before the years <= 0 short-circuit
SimShortCircuit_Validated(a) ==
    /\ sim_pc \in {"idle", "done"}
    /\ a.years <= 0
    /\ args' = a
    /\ ClearLocals
    /\ result' = IF Invalid(a) THEN Failure
                 ELSE Series(<<0>>, <<a.principal>>, <<a.principal>>)
    /\ sim_pc' = "done"
    /\ UNCHANGED <<chartVars, status_label, last>>

\* lines 28-29: years <= 0 returns the single point before any validation
SimShortCircuit(a) ==
    /\ sim_pc \in {"idle", "done"}
    /\ a.years <= 0
    /\ args' = a
    /\ ClearLocals
    /\ result' = Series(<<0>>, <<a.principal>>, <<a.principal>>)
    /\ sim_pc' = "done"
    /\ UNCHANGED <<chartVars, status_label, last>>

\* lines 31-39: invalid input is signalled by (None, None, None)
SimReject(a) ==
    /\ sim_pc \in {"idle", "done"}
    /\ a.years > 0
    /\ Invalid(a)
    /\ args' = a
    /\ ClearLocals
    /\ result' = Failure
    /\ sim_pc' = "done"
    /\ UNCHANGED <<chartVars, status_label, last>>

\* lines 41-48: the locals are initialised and the month loop is entered
SimEnter(a) ==
    /\ sim_pc \in {"idle", "done"}
    /\ a.years > 0
    /\ ~Invalid(a)
    /\ args' = a
    /\ monthly_rates' = MonthlyRates(a)
    /\ SetLocals(LoopEntry(a))
    /\ month' = 0
    /\ result' = None
    /\ sim_pc' = "loop"
    /\ UNCHANGED <<chartVars, status_label, last>>

\* lines 50-64: one iteration of the month loop
SimMonth ==
    /\ sim_pc = "loop"
    /\ month < args.years * MonthsPerYear
    /\ month' = month + 1
    /\ SetLocals(MonthStep(args, monthly_rates, Locals, month + 1))
    /\ UNCHANGED <<sim_pc, args, monthly_rates, result>>
    /\ UNCHANGED <<chartVars, status_label, last>>

\* line 66
SimReturn ==
    /\ sim_pc = "loop"
    /\ month = args.years * MonthsPerYear
    /\ result' = Series(timeline, total_values, total_contributions)
    /\ sim_pc' = "done"
    /\ UNCHANGED <<args, holdings, monthly_rates, timeline, total_values,
                   total_contributions, cumulative_contribution, month>>
    /\ UNCHANGED <<chartVars, status_label, last>>

\* ------------------------------------------------------------ ChartWidget
Axes == "Axes"                          \* the Axes object created by plot

\* an optional float (event.xdata)
NoX == [isNone |-> TRUE]
SomeX(x) == [isNone |-> FALSE, v |-> x]

\* Line2D created by ax.plot([], [], "o", ...), and after set_data
Line2D(xd, yd) == [isNone |-> FALSE, xdata |-> xd, ydata |-> yd]

\* TextArea with its text
TextArea(t) == [isNone |-> FALSE, text |-> t]

\* AnnotationBbox: anchor xy (data), offset xybox (points), visibility
AnnotationBbox(xy, xybox, visible) ==
    [isNone |-> FALSE, xy |-> xy, xybox |-> xybox, visible |-> visible]

\* f"{v:.2f}": v / scale rounded to a whole number of hundredths
\* (round-half-even; the sample values of the model produce no ties)
Fmt2(v, scale) ==
    LET q == (v * Hundred) \div scale
        r == (v * Hundred) % scale
    IN  IF 2 * r < scale THEN q
        ELSE IF 2 * r > scale THEN q + 1
        ELSE IF q % 2 = 0 THEN q ELSE q + 1

\* lines 148-151 and 153: the two label texts
MainText(x, contrib) ==
    <<"Year: ", Fmt2(x, XScale), "\nContrib: ", Fmt2(contrib, MoneyScale)>>
TotalText(total) == <<"Total: ", Fmt2(total, MoneyScale)>>

\* lines 88-131
plot(months, values, contributions) ==
    /\ _dot' = Line2D(<<>>, <<>>)
    /\ _dot_contrib' = Line2D(<<>>, <<>>)
    /\ _info_text_main' = TextArea(<<>>)
    /\ _info_text_total' = TextArea(<<>>)
    /\ _info_box' = AnnotationBbox(<<0, 0>>, <<16, 16>>, FALSE)
    /\ _ax' = Axes
    /\ _xs' = months
    /\ _ys' = values
    /\ _ys_contrib' = contributions

\* line 145: min(range(len(xs)), key=...) keeps the first index whose key is
\* strictly smaller than every key before it (indices here are 1-based)
RECURSIVE MinScan(_, _, _, _)
MinScan(xs, x, i, best) ==
    IF i > Len(xs) THEN best
    ELSE MinScan(xs, x, i + 1,
                 IF Abs(xs[i] - x) < Abs(xs[best] - x) THEN i ELSE best)

\* variant: a later index at the same distance replaces the earlier one
RECURSIVE MinScanLast(_, _, _, _)
MinScanLast(xs, x, i, best) ==
    IF i > Len(xs) THEN best
    ELSE MinScanLast(xs, x, i + 1,
                     IF Abs(xs[i] - x) <= Abs(xs[best] - x) THEN i ELSE best)

NearestIndex_LastWins(xs, x) == MinScanLast(xs, x, 2, 1)

NearestIndex(xs, x) == MinScan(xs, x, 2, 1)

\* ---- render geometry, in display units of 1/18 pixel
DisplayPerPoint == 25                   \* dpi 100: one point is 100/72 pixel
pad == 10

Bbox(x0, y0, x1, y1) == [x0 |-> x0, y0 |-> y0, x1 |-> x1, y1 |-> y1]

\* lines 161-166
candidates ==
    << <<pad, pad, "left">>, <<-pad, pad, "right">>,
       <<pad, -pad, "left">>, <<-pad, -pad, "right">> >>

\* line 171: _info_box.get_window_extent(renderer): the box is centred on the
\* anchor's display position displaced by xybox points
BoxExtent(g, xybox) ==
    LET cx == g.anchor[1] + xybox[1] * DisplayPerPoint
        cy == g.anchor[2] + xybox[2] * DisplayPerPoint
    IN  Bbox(cx - g.hw, cy - g.hh, cx + g.hw, cy + g.hh)

\* lines 172-176
OverflowArea(ax_bbox, bbox) ==
    LET overflow_left   == Max0(ax_bbox.x0 - bbox.x0)
        overflow_right  == Max0(bbox.x1 - ax_bbox.x1)
        overflow_bottom == Max0(ax_bbox.y0 - bbox.y0)
        overflow_top    == Max0(bbox.y1 - ax_bbox.y1)
    IN  overflow_left + overflow_right + overflow_bottom + overflow_top

\* variant: a candidate with equal overflow replaces the earlier one
Better_OrEqual(p, overflow_area) ==
    p.best.isNone \/ overflow_area <= p.best_overflow

\* line 177
Better(p, overflow_area) == p.best.isNone \/ overflow_area < p.best_overflow

\* lines 169-179: the candidate loop; p carries xybox, best, best_overflow
RECURSIVE CandidateLoop(_, _, _)
CandidateLoop(g, p, k) ==
    IF k > Len(candidates) THEN p
    ELSE LET c     == candidates[k]
             trial == <<c[1], c[2]>>
             area  == OverflowArea(g.ax_bbox, BoxExtent(g, trial))
         IN  CandidateLoop(g,
                 IF Better(p, area)
                 THEN [xybox |-> trial,
                       best |-> [isNone |-> FALSE, c |-> c],
                       best_overflow |-> area]
                 ELSE [p EXCEPT !.xybox = trial],
                 k + 1)

\* lines 180-182
FinalOffset(p) == IF p.best.isNone THEN p.xybox ELSE <<p.best.c[1], p.best.c[2]>>

\* variant: without a renderer the offset falls back to the first candidate
Placement_Reset(g, xybox) ==
    IF g.renderer
    THEN FinalOffset(CandidateLoop(g,
             [xybox |-> xybox, best |-> NoneObj, best_overflow |-> 0], 1))
    ELSE <<pad, pad>>

\* lines 157-182: the offset left on the box after the placement search
Placement(g, xybox) ==
    IF g.renderer
    THEN FinalOffset(CandidateLoop(g,
             [xybox |-> xybox, best |-> NoneObj, best_overflow |-> 0], 1))
    ELSE xybox

\* line 134
OutOfPlot(event) ==
    _ax = None \/ event.inaxes # _ax \/ event.xdata.isNone

\* variant: the contribution dot is left where it was
OnMoveOutside_KeepsDot(event) ==
    /\ _ax = None \/ event.inaxes # _ax \/ event.xdata.isNone
    /\ _info_box' = IF IsNone(_info_box) THEN _info_box
                    ELSE [_info_box EXCEPT !.visible = FALSE]
    /\ _dot' = IF IsNone(_dot) THEN _dot ELSE Line2D(<<>>, <<>>)
    /\ UNCHANGED <<_ax, _xs, _ys, _ys_contrib, _info_text_main,
                   _info_text_total, _dot_contrib>>

\* lines 135-142
OnMoveOutside(event) ==
    /\ OutOfPlot(event)
    /\ _info_box' = IF IsNone(_info_box) THEN _info_box
                    ELSE [_info_box EXCEPT !.visible = FALSE]
    /\ _dot' = IF IsNone(_dot) THEN _dot ELSE Line2D(<<>>, <<>>)
    /\ _dot_contrib' = IF IsNone(_dot_contrib) THEN _dot_contrib
                       ELSE Line2D(<<>>, <<>>)
    /\ UNCHANGED <<_ax, _xs, _ys, _ys_contrib, _info_text_main, _info_text_total>>

\* lines 143-189; g is what the renderer reports during this event
\* (min() over an empty range raises ValueError, so the handler only
\* completes on a non-empty series; plot never stores an empty one here)
OnMoveInside(event, g) ==
    /\ ~OutOfPlot(event)
    /\ Len(_xs) > 0
    /\ LET x   == event.xdata.v
           idx == NearestIndex(_xs, x)
       IN  /\ IF IsNone(_info_box)
              THEN UNCHANGED <<_info_box, _info_text_main, _info_text_total,
                               _dot, _dot_contrib>>
              ELSE /\ _info_text_main' =
                         IF IsNone(_info_text_main) THEN _info_text_main
                         ELSE TextArea(MainText(_xs[idx], _ys_contrib[idx]))
                   /\ _info_text_total' =
                         IF IsNone(_info_text_total) THEN _info_text_total
                         ELSE TextArea(TotalText(_ys[idx]))
                   /\ _info_box' =
                         AnnotationBbox(<<_xs[idx], _ys[idx]>>,
                                        Placement(g, _info_box.xybox), TRUE)
                   /\ _dot' = IF IsNone(_dot) THEN _dot
                              ELSE Line2D(<<_xs[idx]>>, <<_ys[idx]>>)
                   /\ _dot_contrib' =
                         IF IsNone(_dot_contrib) THEN _dot_contrib
                         ELSE Line2D(<<_xs[idx]>>, <<_ys_contrib[idx]>>)
    /\ UNCHANGED <<_ax, _xs, _ys, _ys_contrib>>

\* ---- events and geometry delivered by the toolkit
PointerXs == {-30, 0, 14, 15, 25, 168, 180, 500}

\* event.inaxes can only name axes that exist in the figure
EventsAt(pointerXs) ==
    {[inaxes |-> None, xdata |-> NoX]}
      \cup (IF _ax = None THEN {}
            ELSE {[inaxes |-> _ax, xdata |-> NoX]}
                   \cup {[inaxes |-> _ax, xdata |-> SomeX(x)] : x \in pointerXs})

Events == EventsAt(PointerXs)

WideAxes == Bbox(0, 0, 9000, 5400)
NarrowAxes == Bbox(0, 0, 1000, 5400)

Geometry(renderer, ax_bbox, anchor) ==
    [renderer |-> renderer, ax_bbox |-> ax_bbox, anchor |-> anchor,
     hw |-> 900, hh |-> 360]

Anchors ==
    { <<4500, 2700>>, <<8100, 4800>>, <<8100, 2700>>, <<4500, 4800>>,
      <<900, 600>>, <<100, 100>>, <<8900, 5300>> }

NoGeometry == Geometry(FALSE, WideAxes, <<0, 0>>)

Geometries ==
    {NoGeometry}
      \cup {Geometry(TRUE, WideAxes, a) : a \in Anchors}
      \cup {Geometry(TRUE, NarrowAxes, a) : a \in {<<500, 2700>>, <<500, 4800>>}}

SeriesIn ==
    { [months |-> <<0, 120, 240>>, values |-> <<200, 230, 290>>,
       contributions |-> <<200, 200, 250>>],
      [months |-> <<0, 10, 20, 30>>, values |-> <<0, 50, 40, 90>>,
       contributions |-> <<0, 50, 50, 100>>],
      [months |-> <<0>>, values |-> <<200>>, contributions |-> <<200>>] }

\* ChartWidget.plot called with a series
Plot(s) ==
    /\ plot(s.months, s.values, s.contributions)
    /\ last' = [op |-> "plot", series |-> s]
    /\ UNCHANGED <<simVars, status_label>>

\* a motion_notify_event outside the axes or without an x coordinate
MoveOutside(event) ==
    /\ OnMoveOutside(event)
    /\ last' = [op |-> "move", event |-> event, inside |-> FALSE]
    /\ UNCHANGED <<simVars, status_label>>

\* a motion_notify_event inside the plotted axes
MoveInside(event, g) ==
    /\ OnMoveInside(event, g)
    /\ last' = [op |-> "move", event |-> event, inside |-> TRUE, g |-> g,
                idx |-> NearestIndex(_xs, event.xdata.v)]
    /\ UNCHANGED <<simVars, status_label>>

\* ----------------------------------------------------------- RebalanceApp
ErrorColor == "#c0392b"
OkColor == "#2ecc71"

\* lines 309-315
set_status(message, is_error) ==
    status_label' =
        [text |-> message,
         color |-> IF message # ""
                   THEN (IF is_error THEN ErrorColor ELSE OkColor)
                   ELSE ErrorColor]

\* float(text): the texts Python accepts, as numerator and denominator;
\* every other text raises ValueError
Decimal ==
    [t \in {"20", "0", "5", "-5", "7", "3", "60", "40", "39", "100",
            "40.005", "12875", "-99.5", "-100", "-100.5"} |->
        CASE t = "20" -> <<20, 1>>
          [] t = "0" -> <<0, 1>>
          [] t = "5" -> <<5, 1>>
          [] t = "-5" -> <<-5, 1>>
          [] t = "7" -> <<7, 1>>
          [] t = "3" -> <<3, 1>>
          [] t = "60" -> <<60, 1>>
          [] t = "40" -> <<40, 1>>
          [] t = "39" -> <<39, 1>>
          [] t = "100" -> <<100, 1>>
          [] t = "40.005" -> <<40005, 1000>>
          [] t = "12875" -> <<12875, 1>>
          [] t = "-99.5" -> <<-995, 10>>
          [] t = "-100" -> <<-100, 1>>
          [] t = "-100.5" -> <<-1005, 10>>]

IsNumeric(t) == t \in DOMAIN Decimal
Float(t, scale) == (Decimal[t][1] * scale) \div Decimal[t][2]

Row(name, ret, weight) == [name |-> name, ret |-> ret, weight |-> weight]

\* lines 288-307: the rows are read in order; the first row that fails
\* decides the error
RECURSIVE ParseRows(_, _, _)
ParseRows(table, row, methods) ==
    IF row > Len(table)
    THEN IF methods = <<>>
         THEN [ok |-> FALSE, msg |-> "Please add at least one investment method."]
         ELSE [ok |-> TRUE, methods |-> methods, msg |-> ""]
    ELSE IF ~(IsNumeric(table[row].ret) /\ IsNumeric(table[row].weight))
    THEN [ok |-> FALSE,
          msg |-> "Please enter numeric values for returns and weights."]
    ELSE IF Float(table[row].ret, Hundred * ReturnScale)
              < -(Hundred * Hundred * ReturnScale)
    THEN [ok |-> FALSE, msg |-> "Annual return cannot be less than -100%."]
    ELSE ParseRows(table, row + 1,
             Append(methods,
                    Method(Float(table[row].ret, ReturnScale),
                           Float(table[row].weight, WeightScale))))

parse_methods(table) == ParseRows(table, 1, <<>>)

\* line 437
YearsAxis(months) ==
    List([i \in 1..Len(months) |-> (months[i] * XScale) \div MonthsPerYear])

\* variant: a non-numeric contribution is taken as 0 instead of reported
CalcOutcome_DefaultContribution(form) ==
    IF ~IsNumeric(form.principal)
    THEN [ok |-> FALSE, msg |-> "Initial principal must be numeric."]
    ELSE LET parsed == parse_methods(form.table)
         IN  IF ~parsed.ok THEN [ok |-> FALSE, msg |-> parsed.msg]
             ELSE LET r == simulate_growth(
                             [principal |-> Float(form.principal, MoneyScale),
                              years |-> form.years,
                              rebalance_months |-> form.rebalance,
                              contribution_per_rebalance |->
                                  IF IsNumeric(form.contribution)
                                  THEN Float(form.contribution, MoneyScale)
                                  ELSE 0,
                              methods |-> parsed.methods])
                  IN  IF ~r.ok
                      THEN [ok |-> FALSE,
                            msg |-> "Target weights must sum to 100%, and annual return must be >= -100%."]
                      ELSE [ok |-> TRUE, months |-> YearsAxis(r.months),
                            values |-> r.values,
                            contributions |-> r.contributions]

\* lines 406-438: what a calculate request decides from the form
CalcOutcome(form) ==
    IF ~IsNumeric(form.principal)
    THEN [ok |-> FALSE, msg |-> "Initial principal must be numeric."]
    ELSE IF ~IsNumeric(form.contribution)
    THEN [ok |-> FALSE, msg |-> "Contribution per rebalance must be numeric."]
    ELSE LET parsed == parse_methods(form.table)
         IN  IF ~parsed.ok THEN [ok |-> FALSE, msg |-> parsed.msg]
             ELSE LET r == simulate_growth(
                             [principal |-> Float(form.principal, MoneyScale),
                              years |-> form.years,
                              rebalance_months |-> form.rebalance,
                              contribution_per_rebalance |->
                                  Float(form.contribution, MoneyScale),
                              methods |-> parsed.methods])
                  IN  IF ~r.ok
                      THEN [ok |-> FALSE,
                            msg |-> "Target weights must sum to 100%, and annual return must be >= -100%."]
                      ELSE [ok |-> TRUE, months |-> YearsAxis(r.months),
                            values |-> r.values,
                            contributions |-> r.contributions]

\* lines 406-438
calculate(form, clear_status_on_success) ==
    LET out == CalcOutcome(form)
    IN  IF ~out.ok
        THEN /\ set_status(out.msg, TRUE)
             /\ UNCHANGED chartVars
        ELSE /\ IF clear_status_on_success
                THEN set_status("", FALSE)
                ELSE UNCHANGED status_label
             /\ plot(out.months, out.values, out.contributions)

\* ---- what the form can hold when Calculate is requested
Tables ==
    { <<>>,
      <<Row("Stock", "7", "60"), Row("Bond", "3", "40")>>,
      <<Row("A", "12875", "60"), Row("B", "-99.5", "40")>>,
      <<Row("A", "0", "60"), Row("", "-100", "40.005")>>,
      <<Row("A", "0", "60"), Row("B", "0", "39")>>,
      <<Row("A", "x", "60")>>,
      <<Row("A", "5", "")>>,
      <<Row("A", "0", "60"), Row("B", "-100.5", "40")>> }

Forms ==
    [principal : {"20", "abc"}, contribution : {"5", ""},
     years : 1..MaxYears, rebalance : {5}, table : Tables]

AppEvents == EventsAt({15, 500})
AppGeometries == {NoGeometry, Geometry(TRUE, WideAxes, <<8100, 4800>>)}

\* the Calculate button, and the calculate call that ends construction
Calculate(form, clear_status_on_success) ==
    /\ calculate(form, clear_status_on_success)
    /\ last' = [op |-> "calculate", form |-> form]
    /\ UNCHANGED simVars

\* pointer events reach the chart once the window exists
AppMoveOutside(event) ==
    /\ last.op # "none"
    /\ MoveOutside(event)

AppMoveInside(event, g) ==
    /\ last.op # "none"
    /\ MoveInside(event, g)

\* ---------------------------------------------------------- initial state
NoLast == [op |-> "none"]

Init ==
    /\ sim_pc = "idle"
    /\ args = NoArgs
    /\ holdings = <<>>
    /\ monthly_rates = <<>>
    /\ timeline = <<>>
    /\ total_values = <<>>
    /\ total_contributions = <<>>
    /\ cumulative_contribution = 0
    /\ month = 0
    /\ result = None
    /\ _ax = None
    /\ _xs = <<>>
    /\ _ys = <<>>
    /\ _ys_contrib = <<>>
    /\ _info_box = NoneObj
    /\ _info_text_main = NoneObj
    /\ _info_text_total = NoneObj
    /\ _dot = NoneObj
    /\ _dot_contrib = NoneObj
    /\ status_label = [text |-> "", color |-> ErrorColor]
    /\ last = NoLast

NextSim ==
    \/ \E a \in SimArgs : SimShortCircuit(a)
    \/ \E a \in SimArgs : SimReject(a)
    \/ \E a \in SimArgs : SimEnter(a)
    \/ SimMonth
    \/ SimReturn

SpecSim == Init /\ [][NextSim]_vars

NextChart ==
    \/ \E s \in SeriesIn : Plot(s)
    \/ \E e \in Events : MoveOutside(e)
    \/ \E e \in Events, g \in Geometries : MoveInside(e, g)

SpecChart == Init /\ [][NextChart]_vars

NextApp ==
    \/ \E f \in Forms, c \in BOOLEAN : Calculate(f, c)
    \/ \E e \in AppEvents : AppMoveOutside(e)
    \/ \E e \in AppEvents, g \in AppGeometries : AppMoveInside(e, g)

SpecApp == Init /\ [][NextApp]_vars

\* =================================================================== claims
\* helpers that restate the claims without the operators of the model
ClaimMax0(c) == IF c < 0 THEN 0 ELSE c
ClaimReturns(a) == {a.methods[i].annual_return : i \in 1..Len(a.methods)}
SimDone == sim_pc = "done"
SimSucceeded == SimDone /\ args.years > 0 /\ result.ok

\* C1: for years > 0 simulate_growth returns the failure outcome, which is no
\* series result, exactly when the weight sum is <= 0, or is further than 0.01
\* from 100, or some annual return is below -100; sums 99 and 101 fail, sum
\* 100.005 succeeds, a return of -100.5 fails and one of exactly -100 succeeds.
C1_Rejects(a) ==
    LET ws == WeightSum(a.methods)
    IN  \/ ws <= 0
        \/ ws - Pct(100) > WeightTolerance
        \/ Pct(100) - ws > WeightTolerance
        \/ \E r \in ClaimReturns(a) : r < Ret(-100)

C1_FailureIff ==
    (SimDone /\ args.years > 0) =>
        LET ws == WeightSum(args.methods)
        IN  /\ (result = Failure) <=> C1_Rejects(args)
            /\ (result # Failure) => result.ok
            /\ ~Failure.ok
            /\ ws \in {Pct(99), Pct(101)} => result = Failure
            /\ (ws = Pct(100) + 1 /\ \A r \in ClaimReturns(args) : r >= Ret(-100))
                   => result.ok
            /\ (Ret(-100) - 1) \in ClaimReturns(args) => result = Failure
            /\ (ClaimReturns(args) = {Ret(0), Ret(-100)} /\ ws = Pct(100) + 1)
                   => result.ok

C1_Witness ==
    /\ SimSucceeded
    /\ WeightSum(args.methods) = Pct(100) + 1
    /\ Ret(-100) \in ClaimReturns(args)

\* C2: with years <= 0 the result is exactly ([0], [principal], [principal]),
\* whatever the weights, the returns and the asset list are.
C2_ShortCircuit ==
    (SimDone /\ args.years <= 0) =>
        result = [ok |-> TRUE, months |-> <<0>>, values |-> <<args.principal>>,
                  contributions |-> <<args.principal>>]

C2_Witness ==
    /\ SimDone
    /\ args.years <= 0
    /\ WeightSum(args.methods) = Pct(50)
    /\ (Ret(-100) - 1) \in ClaimReturns(args)
    /\ result.ok

\* C3: during the month loop and in every successful result the three lists
\* have the same length, one more than the months processed (years*12 + 1 at
\* the end), monthIndex[i] = i, and both value lists start at principal.
C3_Shape(t, v, c, n) ==
    /\ Len(t) = n + 1
    /\ Len(v) = n + 1
    /\ Len(c) = n + 1
    /\ \A i \in 1..Len(t) : t[i] = i - 1
    /\ v[1] = args.principal
    /\ c[1] = args.principal

C3_AlignedSeries ==
    /\ sim_pc = "loop" =>
           C3_Shape(timeline, total_values, total_contributions, month)
    /\ SimSucceeded =>
           C3_Shape(result.months, result.values, result.contributions,
                    args.years * 12)

C3_Witness == SimSucceeded /\ Len(result.months) = args.years * 12 + 1

\* C4: cumulativeContribution[m] = principal + max(0, contribution) * k(m),
\* k(m) the number of multiples of rebalanceMonths in 1..m (0 when
\* rebalanceMonths <= 0); so it never decreases, a negative contribution
\* leaves it alone and without rebalancing it stays at principal.
C4_K(m) ==
    IF args.rebalance_months > 0
    THEN Cardinality({j \in 1..m : j % args.rebalance_months = 0})
    ELSE 0

C4_Series(c) ==
    /\ \A i \in 1..Len(c) :
          c[i] = args.principal
                   + ClaimMax0(args.contribution_per_rebalance) * C4_K(i - 1)
    /\ \A i \in 1..(Len(c) - 1) : c[i] <= c[i + 1]
    /\ (args.contribution_per_rebalance < 0 \/ args.rebalance_months <= 0)
          => \A i \in 1..Len(c) : c[i] = args.principal

C4_CumulativeContribution ==
    /\ sim_pc = "loop" => C4_Series(total_contributions)
    /\ SimSucceeded => C4_Series(result.contributions)

C4_Witness ==
    /\ SimSucceeded
    /\ args.rebalance_months = 5
    /\ args.contribution_per_rebalance > 0
    /\ result.contributions[Len(result.contributions)]
          = args.principal + 2 * args.years * args.contribution_per_rebalance

\* C10: each month every holding is first multiplied by its own monthly
\* factor; in a month that is a multiple of rebalanceMonths > 0 the total is
\* the grown holdings plus max(0, contribution) and holding i becomes
\* total * weight_i / 100; otherwise the holdings are only grown.  The value
\* recorded for the month is the sum of the holdings after these steps.
C10_Grown ==
    [i \in 1..Len(holdings) |->
        (holdings[i] * (RateScale + monthly_rates[i])) \div RateScale]

C10_Share(total, i) ==
    (total * ((args.methods[i].target_weight * FracScale)
                 \div (Hundred * WeightScale))) \div FracScale

C10_Step ==
    (sim_pc = "loop" /\ month' = month + 1) =>
        LET m == month + 1
            reb == args.rebalance_months > 0 /\ m % args.rebalance_months = 0
            total == SumSeq(C10_Grown)
                       + ClaimMax0(args.contribution_per_rebalance)
        IN  /\ Len(holdings') = Len(args.methods)
            /\ \A i \in 1..Len(args.methods) :
                  holdings'[i] = IF reb THEN C10_Share(total, i)
                                 ELSE C10_Grown[i]
            /\ total_values'[m + 1] = SumSeq(holdings')

C10_MonthStep == [][C10_Step]_vars

C10_Witness ==
    /\ sim_pc = "loop"
    /\ month = 5
    /\ args.rebalance_months = 5
    /\ args.contribution_per_rebalance > 0
    /\ args.principal > 0
    /\ Len(holdings) = 2
    /\ monthly_rates[1] # monthly_rates[2]
    /\ total_values[6] > total_values[5]

\* ---- chart probe
OverlayVisible == ~IsNone(_info_box) /\ _info_box.visible
MovedInside == last.op = "move" /\ last.inside
Dist(i, x) == IF _xs[i] >= x THEN _xs[i] - x ELSE x - _xs[i]

\* C5: an in-plot pointer move selects the sample index with the smallest
\* |x[i] - pointerX|, the lowest such index on a tie (x = [0, 1, 2]: pointer
\* 1.4 and pointer 1.5 both select index 1, counted from 0), and the anchor,
\* the label and both dots are taken from that index.
C5_NearestSample ==
    MovedInside =>
        LET x == last.event.xdata.v
            i == last.idx
        IN  /\ i \in 1..Len(_xs)
            /\ \A j \in 1..Len(_xs) : Dist(i, x) <= Dist(j, x)
            /\ \A j \in 1..(i - 1) : Dist(j, x) > Dist(i, x)
            /\ (_xs = <<0, XScale, 2 * XScale>> /\ x \in {168, 180}) => i - 1 = 1
            /\ _info_box.xy = <<_xs[i], _ys[i]>>
            /\ _info_text_main.text = MainText(_xs[i], _ys_contrib[i])
            /\ _info_text_total.text = TotalText(_ys[i])
            /\ _dot = Line2D(<<_xs[i]>>, <<_ys[i]>>)
            /\ _dot_contrib = Line2D(<<_xs[i]>>, <<_ys_contrib[i]>>)

C5_Witness ==
    /\ MovedInside
    /\ _xs = <<0, XScale, 2 * XScale>>
    /\ last.event.xdata.v = 180
    /\ last.idx = 2
    /\ _dot.xdata = <<XScale>>

\* C6: with render geometry, the offset left after the move is that of the
\* candidate with the smallest total overflow among up-right, up-left,
\* down-right, down-left, the earliest of them on a tie; a candidate that is
\* the only one without overflow is the one chosen.
C6_Offsets == << <<10, 10>>, <<-10, 10>>, <<10, -10>>, <<-10, -10>> >>

C6_Overflow(g, k) ==
    LET b == BoxExtent(g, C6_Offsets[k])
        a == g.ax_bbox
    IN  ClaimMax0(a.x0 - b.x0) + ClaimMax0(b.x1 - a.x1)
          + ClaimMax0(a.y0 - b.y0) + ClaimMax0(b.y1 - a.y1)

C6_LeastOverflow ==
    (MovedInside /\ last.g.renderer) =>
        LET g == last.g
            zero == {k \in 1..4 : C6_Overflow(g, k) = 0}
        IN  /\ \E k \in 1..4 :
                  /\ _info_box.xybox = C6_Offsets[k]
                  /\ \A j \in 1..4 : C6_Overflow(g, k) <= C6_Overflow(g, j)
                  /\ \A j \in 1..(k - 1) : C6_Overflow(g, j) > C6_Overflow(g, k)
            /\ \A k \in 1..4 : zero = {k} => _info_box.xybox = C6_Offsets[k]

C6_Witness ==
    /\ MovedInside
    /\ last.g.renderer
    /\ {k \in 1..4 : C6_Overflow(last.g, k) = 0} = {3, 4}
    /\ _info_box.xybox = <<10, -10>>

\* C7: the overlay is visible exactly when a chart is plotted and the most
\* recent event was a pointer move inside its axes with a defined x; it is
\* visible exactly when the highlight dots are non-empty.
C7_LastInBounds ==
    /\ _ax # None
    /\ last.op = "move"
    /\ last.event.inaxes = _ax
    /\ ~last.event.xdata.isNone

C7_DotsShown ==
    /\ ~IsNone(_dot)
    /\ ~IsNone(_dot_contrib)
    /\ _dot.xdata # <<>>
    /\ _dot_contrib.xdata # <<>>

C7_DotsEmpty ==
    /\ IsNone(_dot) \/ (_dot.xdata = <<>> /\ _dot.ydata = <<>>)
    /\ IsNone(_dot_contrib)
         \/ (_dot_contrib.xdata = <<>> /\ _dot_contrib.ydata = <<>>)

C7_VisibleIffInBounds ==
    /\ OverlayVisible <=> C7_LastInBounds
    /\ OverlayVisible <=> C7_DotsShown
    /\ ~OverlayVisible <=> C7_DotsEmpty

C7_Witness ==
    /\ ~OverlayVisible
    /\ _ax # None
    /\ last.op = "move"
    /\ last.event.inaxes = _ax
    /\ last.event.xdata.isNone
    /\ _info_box.xybox # <<16, 16>>

\* C9: an in-plot move during which the renderer reports nothing leaves the
\* overlay offset as it was (the earlier choice, or the offset set by plot),
\* and still sets the anchor, the label, the visibility and the dots.
C9_Step ==
    (last'.op = "move" /\ last'.inside /\ ~last'.g.renderer) =>
        LET i == last'.idx
        IN  /\ ~IsNone(_info_box)
            /\ _info_box'.xybox = _info_box.xybox
            /\ _info_box'.xy = <<_xs[i], _ys[i]>>
            /\ _info_box'.visible
            /\ _info_text_main'.text = MainText(_xs[i], _ys_contrib[i])
            /\ _info_text_total'.text = TotalText(_ys[i])
            /\ _dot' = Line2D(<<_xs[i]>>, <<_ys[i]>>)
            /\ _dot_contrib' = Line2D(<<_xs[i]>>, <<_ys_contrib[i]>>)

C9_NoGeometryKeepsOffset == [][C9_Step]_vars

C9_Witness ==
    /\ MovedInside
    /\ ~last.g.renderer
    /\ OverlayVisible
    /\ _info_box.xybox = <<-10, -10>>

\* ---- calculate
\* C8: a failing calculate (non-numeric principal or contribution, unparsable
\* or empty asset list, a return below -100, or a failed simulation) changes
\* only the status message: series, axes and overlay stay those of the last
\* successful calculate and pointer moves keep probing that series.  Only a
\* calculate whose simulation succeeded replaces the series, all three at once.
C8_RowsNumeric(form) ==
    \A r \in 1..Len(form.table) :
        IsNumeric(form.table[r].ret) /\ IsNumeric(form.table[r].weight)

C8_Args(form) ==
    [principal |-> Float(form.principal, MoneyScale),
     years |-> form.years,
     rebalance_months |-> form.rebalance,
     contribution_per_rebalance |-> Float(form.contribution, MoneyScale),
     methods |-> [r \in 1..Len(form.table) |->
                     Method(Float(form.table[r].ret, ReturnScale),
                            Float(form.table[r].weight, WeightScale))]]

C8_Fails(form) ==
    \/ ~IsNumeric(form.principal)
    \/ ~IsNumeric(form.contribution)
    \/ form.table = <<>>
    \/ ~C8_RowsNumeric(form)
    \/ /\ IsNumeric(form.principal)
       /\ IsNumeric(form.contribution)
       /\ C8_RowsNumeric(form)
       /\ \/ \E r \in ClaimReturns(C8_Args(form)) : r < Ret(-100)
          \/ ~simulate_growth(C8_Args(form)).ok

C8_Stored == <<_xs, _ys, _ys_contrib>>

C8_Step ==
    /\ (last'.op = "calculate" /\ C8_Fails(last'.form)) =>
          /\ UNCHANGED chartVars
          /\ status_label'.text # ""
    /\ (C8_Stored' # C8_Stored) =>
          /\ last'.op = "calculate"
          /\ ~C8_Fails(last'.form)
          /\ LET r == simulate_growth(C8_Args(last'.form))
             IN  /\ Len(_xs') = Len(r.months)
                 /\ _ys' = r.values
                 /\ _ys_contrib' = r.contributions
    /\ (last'.op = "move" /\ last'.inside) =>
          /\ C8_Stored' = C8_Stored
          /\ _info_box'.xy = <<_xs[last'.idx], _ys[last'.idx]>>

C8_FailedCalculateKeepsChart == [][C8_Step]_vars

C8_Witness ==
    /\ last.op = "calculate"
    /\ C8_Fails(last.form)
    /\ IsNumeric(last.form.principal)
    /\ IsNumeric(last.form.contribution)
    /\ last.form.table # <<>>
    /\ C8_RowsNumeric(last.form)
    /\ \A r \in ClaimReturns(C8_Args(last.form)) : r >= Ret(-100)
    /\ OverlayVisible
    /\ Len(_xs) > 1
    /\ status_label.text # ""

====
